---- MODULE Spec2Model ----
(***************************************************************************)
(* Model of examples/utils.py: the Cartesian-product grid builder          *)
(* cart_prod and the plotting procedures built on it.                      *)
(*                                                                         *)
(* Every procedure is a sequential, stateless composition of calls to the  *)
(* model (model.solve), to numpy and to matplotlib.  One call is one       *)
(* action; what a call did is recorded as the sequence of external calls   *)
(* it made (trace), how it ended (outcome: "returned" or the name of the   *)
(* exception that left it) and, for cart_prod, the value it returned.      *)
(*                                                                         *)
(* Representation of values:                                               *)
(*   - an optional argument is a sequence of length <= 1: None is << >>,   *)
(*     a passed value v is <<v>>;                                          *)
(*   - a one-dimensional array is a sequence; a two-dimensional array is   *)
(*     a sequence of rows; an n-dimensional array is [shape, data] with    *)
(*     data in C (row-major) order, as numpy stores it; the points passed  *)
(*     to plot_pair_1d and plot_sections_2d are kept as [shape, data];     *)
(*   - np.linspace(start, stop, num) is exact: its values are kept as the  *)
(*     integer numerators over the common denominator Den(num);            *)
(*   - timestamps are kept in hundredths (0.2 is 20).                      *)
(*                                                                         *)
(* matplotlib is the one the code was written for: fig.gca accepts the     *)
(* projection keyword (line 77).  What it refuses is modelled: contourf    *)
(* raises TypeError unless z is at least 2 by 2, add_subplot raises        *)
(* ValueError for an index outside the grid, and plt.subplots squeezes the *)
(* array of axes it returns.                                               *)
(***************************************************************************)
EXTENDS Integers, Sequences, FiniteSets

VARIABLES fn, args, trace, outcome, result

vars == <<fn, args, trace, outcome, result>>

\* ---------------------------------------------------------------- bounds
\* cart_prod is exercised on 1..MaxArrs arrays of lengths 1..MaxLen
MaxArrs == 3
MaxLen == 3
\* num_points is passed as None or as one of 0..MaxPoints
MaxPoints == 3

\* ------------------------------------------------------ program constants
\* default num_points of the 'imshow' and 'contourf' modes
DefaultPointsFlat == 80
\* default num_points of the '3d_view' mode
DefaultPoints3d == 20
\* default number of points of plot_pair_1d
DefaultPoints1d == 200
\* default number of points of plot_sections_2d
DefaultPointsSections == 100
\* resolution of savefig
Dpi == 300

None == << >>
Some(v) == <<v>>

\* --------------------------------------------------------------- numpy
RECURSIVE Prod(_)
Prod(s) == IF s = << >> THEN 1 ELSE Head(s) * Prod(Tail(s))

\* the shape of the arrays np.meshgrid(*arrs, indexing='ij') returns
ShapeOf(arrs) == [j \in 1..Len(arrs) |-> Len(arrs[j])]

\* the C-order stride (in elements) of axis j of an array of this shape
Stride(shape, j) == Prod(SubSeq(shape, j + 1, Len(shape)))

\* np.meshgrid(*arrs, indexing='ij'): the j-th array has the shape
\* (n1, ..., nk) and holds arrs[j][i_j] at the index (i_1, ..., i_k)
meshgrid_ij(arrs) ==
    LET shape == ShapeOf(arrs)
        size == Prod(shape)
    IN  [j \in 1..Len(arrs) |->
            [shape |-> shape,
             data  |-> [p \in 1..size |->
                          arrs[j][(((p - 1) \div Stride(shape, j)) % shape[j]) + 1]]]]

\* np.meshgrid(xs, ys) with the default indexing='xy': two arrays of shape
\* (len(ys), len(xs)) with xs_[i][j] = xs[j] and ys_[i][j] = ys[i]
meshgrid_xy(xs, ys) ==
    <<[i \in 1..Len(ys) |-> [j \in 1..Len(xs) |-> xs[j]]],
      [i \in 1..Len(ys) |-> [j \in 1..Len(xs) |-> ys[i]]]>>

\* fault: np.stack(grids, axis=0), the new axis first instead of last
stack_first(grids) ==
    LET k == Len(grids)
        shape == grids[1].shape
        size == Prod(shape)
    IN  [shape |-> <<k>> \o shape,
         data  |-> [q \in 1..(size * k) |->
                      grids[((q - 1) \div size) + 1].data[((q - 1) % size) + 1]]]

\* np.stack(grids, axis=-1): a new last axis of length len(grids)
stack_last(grids) ==
    LET k == Len(grids)
        shape == grids[1].shape
        size == Prod(shape)
    IN  [shape |-> shape \o <<k>>,
         data  |-> [q \in 1..(size * k) |->
                      grids[((q - 1) % k) + 1].data[((q - 1) \div k) + 1]]]

\* fault: a.reshape(ncols, -1), the two dimensions exchanged
reshape_columns(a, ncols) ==
    [r \in 1..ncols |->
        [c \in 1..(Len(a.data) \div ncols) |->
            a.data[(r - 1) * (Len(a.data) \div ncols) + c]]]

\* a.reshape(-1, ncols) of an n-dimensional array, as a sequence of rows
reshape_rows(a, ncols) ==
    [r \in 1..(Len(a.data) \div ncols) |->
        [c \in 1..ncols |-> a.data[(r - 1) * ncols + c]]]

\* v.reshape(nrows, ncols) of a one-dimensional array of nrows*ncols values
reshape2(v, nrows, ncols) ==
    [i \in 1..nrows |-> [j \in 1..ncols |-> v[(i - 1) * ncols + j]]]

\* the common denominator of the values of np.linspace(start, stop, num)
Den(num) == IF num > 1 THEN num - 1 ELSE 1

\* fault: one point too few, as np.linspace(start, stop, num - 1)
linspace_short(start, stop, num) ==
    [i \in 1..(num - 1) |-> start * Den(num - 1) + (i - 1) * (stop - start)]

\* np.linspace(start, stop, num): start + i * (stop - start) / (num - 1) for
\* i = 0..num-1, each value given as its numerator over Den(num)
linspace(start, stop, num) ==
    [i \in 1..num |-> start * Den(num) + (i - 1) * (stop - start)]

\* v.reshape(-1, 1): a one-dimensional array as a single column
column(v) == [i \in 1..Len(v) |-> <<v[i]>>]

\* np.concatenate([a, t * np.ones((a.shape[0], 1))], axis=1)
with_time(a, t) == [r \in 1..Len(a) |-> a[r] \o <<t>>]

\* ------------------------------------------------------------ cart_prod
cart_prod(arrs) ==
    LET grids == meshgrid_ij(arrs)
    IN  reshape_rows(stack_last(grids), Len(arrs))

\* ---------------------------------------------------------- the model
\* The trained model and the ground-truth function are external
\* collaborators: solve(points) and solution(points) give one scalar per
\* row of points.  Three stand-ins: a constant, a function symmetric in its
\* coordinates (their sum) and one that is not (x + 3y + 5t).
Models == {"const", "sum", "asym"}

RECURSIVE Weighted(_, _, _)
Weighted(m, row, k) ==
    IF k > Len(row) THEN 0
    ELSE (IF m = "asym" THEN 2 * k - 1 ELSE 1) * row[k] + Weighted(m, row, k + 1)

\* the model's value at one point
U(m, row) == IF m = "const" THEN 7 ELSE Weighted(m, row, 1)

\* model.solve(points): the returned array
solve(m, points) == [r \in 1..Len(points) |-> U(m, points[r])]

\* the record of one call model.solve(points, fetches=fetches); a call
\* written without the fetches argument runs with solve's default, None
SolveEv(points, fetches) == [op |-> "solve", grid |-> points, fetches |-> fetches]

\* the record of a call to a plotting primitive that carries no data
Ev(op) == [op |-> op]

SaveEv(path) == [op |-> "savefig", path |-> path, dpi |-> Dpi]

Returned(t) == [trace |-> t, outcome |-> "returned"]
Raised(t, exc) == [trace |-> t, outcome |-> exc]

\* Python's `a or b` on an optional integer: None and 0 are falsy
Or(a, b) == IF a = None \/ a = Some(0) THEN b ELSE a[1]

\* ---------------------------------------------------------- plot_loss
plot_loss(loss) ==
    Returned(<<[op |-> "plot", y |-> loss], Ev("xlabel"), Ev("ylabel"),
               Ev("title"), Ev("show")>>)

\* ------------------------------------------------------- plot_pair_1d
\* a one-dimensional array v as the array [shape, data] of v.reshape(-1, 1)
as_column(v) == [shape |-> <<Len(v), 1>>, data |-> v]

\* an array [shape, data] of one or two dimensions as the value passed on:
\* a sequence of values, or a sequence of rows
array_value(a) ==
    IF Len(a.shape) = 1 THEN a.data
    ELSE reshape2(a.data, a.shape[1], a.shape[2])

\* the points an array of one or two dimensions holds, one per row (one per
\* element when it has one dimension)
point_rows(a) ==
    IF Len(a.shape) = 1 THEN column(a.data)
    ELSE reshape2(a.data, a.shape[1], a.shape[2])

\* points[:, plot_coord] of a two-dimensional array: a one-dimensional array
take_column(points, c) ==
    [shape |-> <<points.shape[1]>>,
     data  |-> [r \in 1..points.shape[1] |-> points.data[(r - 1) * points.shape[2] + c + 1]]]

\* whether numpy broadcasts two one-dimensional arrays of these lengths
\* together; plt.fill_between raises ValueError when it does not
broadcastable(n, m) == n = m \/ n = 1 \/ m = 1

\* points is an array [shape, data] of one or two dimensions
plot_pair_1d(solution, model, points, plot_coord, confidence, save, path) ==
    LET points1 == IF points # None THEN points[1]
                   ELSE as_column(linspace(0, 1, DefaultPoints1d))
        approxs == solve(model, point_rows(points1))
        t1 == <<SolveEv(array_value(points1), None)>>
    IN  IF plot_coord # None
           /\ (Len(points1.shape) # 2 \/ plot_coord[1] >= points1.shape[2])
        THEN Raised(t1, "IndexError")
        ELSE
        LET points2 == IF plot_coord = None THEN points1
                       ELSE take_column(points1, plot_coord[1])
            true == solve(solution, point_rows(points2))
            t2 == t1 \o <<[op |-> "solution", points |-> array_value(points2)],
                          [op |-> "plot", x |-> array_value(points2), y |-> true],
                          [op |-> "plot", x |-> array_value(points2), y |-> approxs],
                          Ev("xlabel"), Ev("ylabel"), Ev("title")>>
        IN  IF confidence # None /\ ~broadcastable(Len(points2.data), Len(true))
            THEN Raised(t2, "ValueError")
            ELSE
            LET t3 == IF confidence # None
                      THEN t2 \o <<[op |-> "fill_between", x |-> points2.data,
                                    lo |-> [r \in 1..Len(true) |-> true[r] - confidence[1]],
                                    hi |-> [r \in 1..Len(true) |-> true[r] + confidence[1]]]>>
                      ELSE t2
                t4 == t3 \o <<Ev("legend"), Ev("grid")>>
                t5 == IF save THEN t4 \o <<SaveEv(path)>> ELSE t4
            IN  Returned(t5 \o <<Ev("show")>>)

\* ------------------------------------------------------------ plot_2d
\* lines 52-59: the 'imshow' branch
plot_2d_imshow(model, fetches, grid, xlim, ylim, num_points) ==
    LET n == IF grid = None THEN Some(Or(num_points, DefaultPointsFlat))
             ELSE num_points
        grid1 == IF grid = None
                 THEN cart_prod(<<linspace(xlim[1], xlim[2], n[1]),
                                  linspace(ylim[1], ylim[2], n[1])>>)
                 ELSE grid[1]
        approxs == solve(model, grid1)
        t1 == <<SolveEv(grid1, fetches)>>
    IN  IF n = None THEN Raised(t1, "TypeError")
        ELSE IF Len(approxs) # n[1] * n[1] THEN Raised(t1, "ValueError")
        ELSE Returned(t1 \o <<[op |-> "imshow",
                               zs |-> reshape2(approxs, n[1], n[1])]>>)

\* contourf(x, y, z) accepts z only if it is at least 2 by 2 (it raises
\* TypeError otherwise)
contourf_accepts(zs) == Len(zs) >= 2 /\ Len(zs[1]) >= 2

\* lines 60-82: the 'contourf' and '3d_view' branch.  xs, ys, xs_ and ys_
\* are bound only when no grid is passed; solve is called without fetches
plot_2d_surface(model, mode, grid, xlim, ylim, num_points) ==
    LET n == Or(num_points, IF mode = "contourf" THEN DefaultPointsFlat
                            ELSE DefaultPoints3d)
        xs == linspace(xlim[1], xlim[2], n)
        ys == linspace(ylim[1], ylim[2], n)
        mesh == meshgrid_xy(xs, ys)
        grid1 == IF grid = None THEN cart_prod(<<xs, ys>>) ELSE grid[1]
        t1 == <<SolveEv(grid1, None)>>
    IN  IF grid # None THEN Raised(t1, "UnboundLocalError")
        ELSE
        LET zs == reshape2(solve(model, grid1), Len(xs), Len(ys))
        IN  IF mode = "contourf"
            THEN (IF ~contourf_accepts(zs) THEN Raised(t1, "TypeError")
                  ELSE Returned(t1 \o <<[op |-> "contourf", xs |-> mesh[1],
                                         ys |-> mesh[2], zs |-> zs]>>))
            ELSE Returned(t1 \o <<Ev("figure"), Ev("gca"),
                                  [op |-> "plot_surface", xs |-> mesh[1],
                                   ys |-> mesh[2], zs |-> zs],
                                  Ev("set_title"), Ev("set_xlabel"),
                                  Ev("set_ylabel")>>)

\* fault: show is called whatever the mode
plot_2d_finish_show(mode, save, path) ==
    (IF mode \in {"imshow", "contourf"} THEN <<Ev("title"), Ev("colorbar")>>
     ELSE << >>)
    \o (IF save THEN <<SaveEv(path)>> ELSE << >>)
    \o <<Ev("show")>>

\* lines 84-92: title and colorbar, savefig, show
plot_2d_finish(mode, save, path) ==
    (IF mode \in {"imshow", "contourf"} THEN <<Ev("title"), Ev("colorbar")>>
     ELSE << >>)
    \o (IF save THEN <<SaveEv(path)>> ELSE << >>)
    \o (IF mode \in {"3d_view", "contourf"} THEN <<Ev("show")>> ELSE << >>)

\* fault: `else` for `elif mode in ('contourf', '3d_view')`, so that a mode
\* that is not recognized is drawn as a 3d view
plot_2d_else(model, mode, fetches, grid, xlim, ylim, num_points, save, path) ==
    LET body == IF mode = "imshow"
                THEN plot_2d_imshow(model, fetches, grid, xlim, ylim, num_points)
                ELSE plot_2d_surface(model, mode, grid, xlim, ylim, num_points)
    IN  IF body.outcome # "returned" THEN body
        ELSE Returned(body.trace \o plot_2d_finish(mode, save, path))

plot_2d(model, mode, fetches, grid, xlim, ylim, num_points, save, path) ==
    LET body == IF mode = "imshow"
                THEN plot_2d_imshow(model, fetches, grid, xlim, ylim, num_points)
                ELSE IF mode \in {"contourf", "3d_view"}
                THEN plot_2d_surface(model, mode, grid, xlim, ylim, num_points)
                ELSE Returned(<< >>)
    IN  IF body.outcome # "returned" THEN body
        ELSE Returned(body.trace \o plot_2d_finish(mode, save, path))

\* --------------------------------------------------- plot_sections_2d
\* plt.subplots(nrows, ncols) with its default squeeze=True: the shape of
\* the returned axes; a single Axes object (shape << >>) for 1 by 1, a
\* one-dimensional array when there is one row or one column
subplots(grid_size) ==
    IF grid_size[1] = 1 /\ grid_size[2] = 1 THEN << >>
    ELSE IF grid_size[1] = 1 THEN <<grid_size[2]>>
    ELSE IF grid_size[2] = 1 THEN <<grid_size[1]>>
    ELSE grid_size

\* axes[wx, wy]: "ok", or the exception the subscript raises
axes_item(shape, wx, wy) ==
    IF shape = << >> THEN "TypeError"
    ELSE IF Len(shape) # 2 THEN "IndexError"
    ELSE IF wx >= shape[1] \/ wy >= shape[2] THEN "IndexError"
    ELSE "ok"

\* lines 114-119: the sections from the i-th (0-based) on, after trace t.
\* points is an array [shape, data] of any shape: points.reshape(-1, 1) has
\* one row per element, the column of times has points.shape[0] rows, and
\* np.concatenate raises ValueError unless the two numbers agree
RECURSIVE sections_2d_loop(_, _, _, _, _, _, _)
sections_2d_loop(model, timestamps, grid_size, points, fetches, i, t) ==
    IF i >= Len(timestamps) THEN Returned(t)
    ELSE
    LET t_ == timestamps[i + 1]
        points_ == with_time(column(points.data), t_)
        wx == i \div grid_size[2]
        wy == i % grid_size[2]
        item == axes_item(subplots(grid_size), wx, wy)
    IN  IF Len(points.data) # points.shape[1] THEN Raised(t, "ValueError")
        ELSE IF item # "ok" THEN Raised(t, item)
        ELSE sections_2d_loop(model, timestamps, grid_size, points, fetches, i + 1,
                 t \o <<SolveEv(points_, fetches),
                        [op |-> "plot", cell |-> <<wx, wy>>,
                         x |-> points.data, y |-> solve(model, points_)],
                        [op |-> "set_ylim", cell |-> <<wx, wy>>],
                        [op |-> "set_title", cell |-> <<wx, wy>>, t |-> t_]>>)

plot_sections_2d(model, timestamps, grid_size, points, fetches, save, path) ==
    LET points1 == IF points # None THEN points[1]
                   ELSE as_column(linspace(0, 1, DefaultPointsSections))
        loop == sections_2d_loop(model, timestamps, grid_size, points1, fetches, 0,
                                 <<[op |-> "subplots", grid_size |-> grid_size]>>)
    IN  IF loop.outcome # "returned" THEN loop
        ELSE Returned(loop.trace
                      \o <<Ev("tight_layout"), Ev("suptitle"), Ev("subplots_adjust")>>
                      \o (IF save THEN <<SaveEv(path)>> ELSE << >>)
                      \o <<Ev("show")>>)

\* --------------------------------------------------- plot_sections_3d
\* lines 139-143
default_num_points(mode, num_points) ==
    IF num_points = None
    THEN (IF mode = "imshow" \/ mode = "contourf" THEN DefaultPointsFlat
          ELSE DefaultPoints3d)
    ELSE num_points[1]

\* lines 152-173: the sections from the i-th (0-based) on, after trace t;
\* loc holds the locals xs, ys, grid, xs_ and ys_ of lines 145-148.
\* fig.add_subplot(nrows, ncols, i + 1) raises ValueError unless
\* 1 <= i + 1 <= nrows * ncols; solve is called without fetches; contourf
\* raises TypeError on a z smaller than 2 by 2
RECURSIVE sections_3d_loop(_, _, _, _, _, _, _)
sections_3d_loop(model, timestamps, grid_size, mode, loc, i, t) ==
    IF i >= Len(timestamps) THEN Returned(t)
    ELSE
    LET t_ == timestamps[i + 1]
        grid_ == with_time(loc.grid, t_)
    IN  IF i + 1 > grid_size[1] * grid_size[2] THEN Raised(t, "ValueError")
        ELSE
        LET zs_ == reshape2(solve(model, grid_), Len(loc.xs), Len(loc.ys))
            draw == IF mode = "imshow"
                    THEN <<[op |-> "imshow", cell |-> i + 1, zs |-> zs_]>>
                    ELSE IF mode = "contourf"
                    THEN <<[op |-> "contourf", cell |-> i + 1, xs |-> loc.xs_,
                            ys |-> loc.ys_, zs |-> zs_]>>
                    ELSE IF mode = "3d_view"
                    THEN <<[op |-> "plot_surface", cell |-> i + 1, xs |-> loc.xs_,
                            ys |-> loc.ys_, zs |-> zs_],
                           [op |-> "set_zlim", cell |-> i + 1]>>
                    ELSE << >>
            solved == t \o <<[op |-> "add_subplot", cell |-> i + 1,
                              projection3d |-> (mode = "3d_view")],
                             SolveEv(grid_, None)>>
        IN  IF mode = "contourf" /\ ~contourf_accepts(zs_)
            THEN Raised(solved, "TypeError")
            ELSE
            sections_3d_loop(model, timestamps, grid_size, mode, loc, i + 1,
                solved
                  \o draw
                  \o <<[op |-> "set_title", cell |-> i + 1, t |-> t_],
                       [op |-> "set_xlabel", cell |-> i + 1],
                       [op |-> "set_ylabel", cell |-> i + 1]>>)

plot_sections_3d(model, timestamps, grid_size, mode, fetches, xlim, ylim, num_points, save, path) ==
    LET n == default_num_points(mode, num_points)
        xs == linspace(xlim[1], xlim[2], n)
        ys == linspace(ylim[1], ylim[2], n)
        mesh == meshgrid_xy(xs, ys)
        loc == [xs |-> xs, ys |-> ys, grid |-> cart_prod(<<xs, ys>>),
                xs_ |-> mesh[1], ys_ |-> mesh[2]]
        loop == sections_3d_loop(model, timestamps, grid_size, mode, loc, 0,
                                 <<Ev("figure")>>)
    IN  IF loop.outcome # "returned" THEN loop
        ELSE Returned(loop.trace
                      \o <<Ev("suptitle")>>
                      \o (IF save THEN <<SaveEv(path)>> ELSE << >>)
                      \o <<Ev("show")>>)

\* ------------------------------------------------------------- inputs
\* the arrays cart_prod is called on: ascending units, ascending tens and
\* descending units, of every length 1..MaxLen
ArrKinds == {"units", "tens", "down"}

Arr(kind, n) ==
    [i \in 1..n |-> IF kind = "units" THEN i
                    ELSE IF kind = "tens" THEN 10 * i
                    ELSE n + 1 - i]

\* the three recognized modes and one that is not
Modes == {"imshow", "contourf", "3d_view", "wireframe"}

FetchesChoices == {None, Some("grad")}

NumPointsChoices == {None} \cup {Some(n) : n \in 0..MaxPoints}

\* a pre-built grid: none, the 2 by 2 grid of the unit square, or three
\* points (not a square number of rows)
GridChoices ==
    {None,
     Some(cart_prod(<<linspace(0, 1, 2), linspace(0, 1, 2)>>)),
     Some(<<<<0, 0>>, <<0, 1>>, <<1, 0>>>>)}

XlimChoices == {<<0, 1>>, <<0, 2>>}

\* the default timestamps (0, 0.2, 0.4, 0.6, 0.7, 0.9), in hundredths
DefaultTimestamps == <<0, 20, 40, 60, 70, 90>>

TimestampsChoices ==
    {<< >>, <<0>>, <<40, 0>>, <<0, 20, 40>>, DefaultTimestamps}

GridSizeChoices == {<<1, 1>>, <<1, 3>>, <<2, 1>>, <<2, 3>>}

\* points passed to plot_pair_1d: a column, a one-dimensional array, an
\* array of two columns, or a column of no points
PointsChoices ==
    {None,
     Some([shape |-> <<3, 1>>, data |-> <<0, 1, 2>>]),
     Some([shape |-> <<3>>, data |-> <<0, 1, 2>>]),
     Some([shape |-> <<3, 2>>, data |-> <<0, 5, 1, 6, 2, 7>>]),
     Some([shape |-> <<0, 1>>, data |-> << >>])}

\* points passed to plot_sections_2d: a one-dimensional array, a column,
\* or an array of two columns
SectionPointsChoices ==
    {None,
     Some([shape |-> <<3>>, data |-> <<0, 1, 2>>]),
     Some([shape |-> <<3, 1>>, data |-> <<0, 1, 2>>]),
     Some([shape |-> <<2, 2>>, data |-> <<0, 1, 2, 3>>])}

LossChoices == {<< >>, <<5>>, <<5, 3, 2>>}

\* A call that falls back to the default number of points evaluates the
\* model on 80 * 80 (or 20 * 20) points per solve.  Such calls are made
\* with the constant stub model and the other arguments at their defaults;
\* every other combination of arguments is made with an explicit num_points.
DefaultSized(grid, num_points) == grid = None /\ num_points \in {None, Some(0)}

PlainCall(model, fetches, save) == model = "const" /\ fetches = None /\ ~save

\* ------------------------------------------------------------ actions
Init ==
    /\ fn = "idle"
    /\ args = << >>
    /\ trace = << >>
    /\ outcome = "idle"
    /\ result = None

Finish(name, a, r) ==
    /\ fn' = name
    /\ args' = a
    /\ trace' = r.trace
    /\ outcome' = r.outcome
    /\ result' = None

Call_cart_prod ==
    /\ fn = "idle"
    /\ \E k \in 1..MaxArrs :
         \E lens \in [1..k -> 1..MaxLen], kinds \in [1..k -> ArrKinds] :
           LET arrs == [j \in 1..k |-> Arr(kinds[j], lens[j])]
           IN  /\ fn' = "cart_prod"
               /\ args' = [arrs |-> arrs]
               /\ trace' = << >>
               /\ outcome' = "returned"
               /\ result' = Some(cart_prod(arrs))

Call_plot_loss ==
    /\ fn = "idle"
    /\ \E loss \in LossChoices :
         Finish("plot_loss", [loss |-> loss], plot_loss(loss))

Call_plot_pair_1d ==
    /\ fn = "idle"
    /\ \E solution \in Models, model \in Models, points \in PointsChoices,
          plot_coord \in {None, Some(0), Some(1)}, confidence \in {None, Some(1)},
          save \in BOOLEAN :
         Finish("plot_pair_1d",
                [solution |-> solution, model |-> model, points |-> points,
                 plot_coord |-> plot_coord, confidence |-> confidence,
                 save |-> save, path |-> "pair.png"],
                plot_pair_1d(solution, model, points, plot_coord, confidence,
                             save, "pair.png"))

Call_plot_2d ==
    /\ fn = "idle"
    /\ \E model \in Models, mode \in Modes, fetches \in FetchesChoices,
          grid \in GridChoices, xlim \in XlimChoices,
          num_points \in NumPointsChoices, save \in BOOLEAN :
         /\ DefaultSized(grid, num_points) =>
                PlainCall(model, fetches, save) /\ xlim = <<0, 1>>
         /\ Finish("plot_2d",
                   [model |-> model, mode |-> mode, fetches |-> fetches,
                    grid |-> grid, xlim |-> xlim, ylim |-> <<0, 1>>,
                    num_points |-> num_points, save |-> save,
                    path |-> "approximation.png"],
                   plot_2d(model, mode, fetches, grid, xlim, <<0, 1>>, num_points,
                           save, "approximation.png"))

Call_plot_sections_2d ==
    /\ fn = "idle"
    /\ \E model \in Models, timestamps \in TimestampsChoices,
          grid_size \in GridSizeChoices, points \in SectionPointsChoices,
          fetches \in FetchesChoices, save \in BOOLEAN :
         Finish("plot_sections_2d",
                [model |-> model, timestamps |-> timestamps,
                 grid_size |-> grid_size, points |-> points,
                 fetches |-> fetches, save |-> save, path |-> "sections.png"],
                plot_sections_2d(model, timestamps, grid_size, points, fetches,
                                 save, "sections.png"))

Call_plot_sections_3d ==
    /\ fn = "idle"
    /\ \E model \in Models, timestamps \in TimestampsChoices,
          grid_size \in GridSizeChoices, mode \in Modes,
          fetches \in FetchesChoices, num_points \in NumPointsChoices \ {Some(0)},
          save \in BOOLEAN :
         /\ DefaultSized(None, num_points) =>
                PlainCall(model, fetches, save) /\ Len(timestamps) <= 2
         /\ Finish("plot_sections_3d",
                   [model |-> model, timestamps |-> timestamps,
                    grid_size |-> grid_size, mode |-> mode, fetches |-> fetches,
                    xlim |-> <<0, 1>>, ylim |-> <<0, 1>>,
                    num_points |-> num_points, save |-> save,
                    path |-> "sections.png"],
                   plot_sections_3d(model, timestamps, grid_size, mode, fetches,
                                    <<0, 1>>, <<0, 1>>, num_points, save,
                                    "sections.png"))

\* the call is over: control is back with the caller, and nothing of the
\* call (grid, figure, result) is kept by this module
Return ==
    /\ fn # "idle"
    /\ fn' = "idle"
    /\ args' = << >>
    /\ trace' = << >>
    /\ outcome' = "idle"
    /\ result' = None

Next ==
    \/ Call_cart_prod
    \/ Call_plot_loss
    \/ Call_plot_pair_1d
    \/ Call_plot_2d
    \/ Call_plot_sections_2d
    \/ Call_plot_sections_3d
    \/ Return

Spec == Init /\ [][Next]_vars

\* ======================================================== properties
Recognized == {"imshow", "contourf", "3d_view"}

\* the positions of the trace at which the primitive op was called
Idx(op) == {i \in 1..Len(trace) : trace[i].op = op}

\* the calls of the primitive op, in the order they were made
Calls(op) == SelectSeq(trace, LAMBDA e : e.op = op)

\* n1 * n2 * ... * nk for the arrays of a cart_prod call
RECURSIVE NumTuples(_)
NumTuples(arrs) == IF arrs = << >> THEN 1 ELSE Len(Head(arrs)) * NumTuples(Tail(arrs))

\* the position i1*(n2*...*nk) + ... + ik of an index tuple: the count of
\* iterations a nested loop, first array outermost, makes before reaching it
RECURSIVE LoopPosition(_, _, _, _)
LoopPosition(arrs, idx, j, acc) ==
    IF j > Len(arrs) THEN acc
    ELSE LoopPosition(arrs, idx, j + 1, acc * Len(arrs[j]) + idx[j])

IndexTuples(arrs) ==
    {idx \in [1..Len(arrs) -> 0..(MaxLen - 1)] :
        \A j \in 1..Len(arrs) : idx[j] < Len(arrs[j])}

\* C1: cart_prod of k non-empty arrays of lengths n1..nk returns exactly
\* n1*n2*...*nk rows, each of exactly k columns.
C1_Shape ==
    fn = "cart_prod" =>
        /\ Len(result[1]) = NumTuples(args.arrs)
        /\ \A r \in 1..Len(result[1]) : Len(result[1][r]) = Len(args.arrs)

\* three arrays of different lengths: 3 * 1 * 2 = 6 rows of 3 columns
C1_Witness ==
    /\ fn = "cart_prod"
    /\ args.arrs = <<<<1, 2, 3>>, <<10>>, <<2, 1>>>>
    /\ Len(result[1]) = 6
    /\ Len(result[1][6]) = 3

\* C2: the rows of cart_prod are in first-array-slowest order: the row at
\* position i1*(n2*...*nk) + i2*(n3*...*nk) + ... + ik is
\* (a1[i1], ..., ak[ik]); cart_prod([1,2],[10,20]) is
\* [(1,10),(1,20),(2,10),(2,20)]; cart_prod of one array is that array as
\* one column.
C2_Order ==
    fn = "cart_prod" =>
        /\ \A idx \in IndexTuples(args.arrs) :
              result[1][LoopPosition(args.arrs, idx, 1, 0) + 1]
                 = [j \in 1..Len(args.arrs) |-> args.arrs[j][idx[j] + 1]]
        /\ args.arrs = <<<<1, 2>>, <<10, 20>>>> =>
              result[1] = <<<<1, 10>>, <<1, 20>>, <<2, 10>>, <<2, 20>>>>
        /\ Len(args.arrs) = 1 =>
              result[1] = [r \in 1..Len(args.arrs[1]) |-> <<args.arrs[1][r]>>]

C2_Witness ==
    /\ fn = "cart_prod"
    /\ args.arrs = <<<<1, 2>>, <<10, 20>>>>
    /\ result = Some(<<<<1, 10>>, <<1, 20>>, <<2, 10>>, <<2, 20>>>>)

\* C3, as claimed: a plotting call that returns normally has called
\* model.solve exactly once (plot_pair_1d, and plot_2d for every value of
\* mode) or exactly len(timestamps) times (the two section plotters).
C3_Original ==
    outcome = "returned" =>
        /\ fn \in {"plot_pair_1d", "plot_2d"} => Len(Calls("solve")) = 1
        /\ fn \in {"plot_sections_2d", "plot_sections_3d"} =>
              Len(Calls("solve")) = Len(args.timestamps)

\* C3, amended: as claimed, except that plot_2d calls model.solve exactly
\* once in each recognized mode and not at all when the mode is not
\* recognized.
C3_SolveCount ==
    outcome = "returned" =>
        /\ fn = "plot_pair_1d" => Len(Calls("solve")) = 1
        /\ fn = "plot_2d" =>
              Len(Calls("solve")) = (IF args.mode \in Recognized THEN 1 ELSE 0)
        /\ fn \in {"plot_sections_2d", "plot_sections_3d"} =>
              Len(Calls("solve")) = Len(args.timestamps)

\* a section plotter that returned after one solve per section, six in all
C3_Witness ==
    /\ fn = "plot_sections_3d"
    /\ outcome = "returned"
    /\ args.timestamps = DefaultTimestamps
    /\ Len(Calls("solve")) = 6

\* the number of points per axis a call of plot_2d or plot_sections_3d works
\* with when its num_points is None or n >= 1
ExpectedPoints(flat_default, other_default) ==
    IF args.num_points = None
    THEN (IF args.mode \in {"imshow", "contourf"} THEN flat_default ELSE other_default)
    ELSE args.num_points[1]

\* every solve call of the trace, and there is one, got rows rows of cols columns
SolvedOn(rows, cols) ==
    /\ Calls("solve") # << >>
    /\ \A i \in 1..Len(Calls("solve")) :
          /\ Len(Calls("solve")[i].grid) = rows
          /\ \A r \in 1..rows : Len(Calls("solve")[i].grid[r]) = cols

\* C4: without a passed grid, plot_2d with num_points = n >= 1 (or None: 80,
\* 80, 20 by mode) solves on n**2 rows of 2 columns in each recognized mode;
\* plot_sections_3d solves on n**2 rows of 3 columns at every section;
\* plot_pair_1d solves on 200 rows and plot_sections_2d on 100 rows per call
\* by default.
C4_GridRows ==
    /\ (/\ fn = "plot_2d"
        /\ args.grid = None
        /\ args.mode \in Recognized
        /\ args.num_points # Some(0))
       => LET n == ExpectedPoints(80, 20) IN SolvedOn(n * n, 2)
    /\ (fn = "plot_sections_3d" /\ Calls("solve") # << >>)
       => LET n == ExpectedPoints(80, 20) IN SolvedOn(n * n, 3)
    /\ (fn = "plot_pair_1d" /\ args.points = None) => SolvedOn(200, 1)
    /\ (fn = "plot_sections_2d" /\ args.points = None /\ Calls("solve") # << >>)
       => SolvedOn(100, 2)

\* plot_2d in the 'imshow' mode with every argument at its default
C4_Witness ==
    /\ fn = "plot_2d"
    /\ args.mode = "imshow"
    /\ args.grid = None
    /\ args.num_points = None
    /\ Len(Calls("solve")) = 1
    /\ Len(trace[1].grid) = 6400

\* C5: plot_2d with a mode other than 'imshow', 'contourf' and '3d_view'
\* returns without raising, whatever the other arguments, and calls none of
\* imshow, contourf, plot_surface, title, colorbar and show (it calls
\* nothing at all but savefig, and that only when save is true).
C5_UnknownMode ==
    (fn = "plot_2d" /\ args.mode \notin Recognized) =>
        /\ outcome = "returned"
        /\ \A i \in 1..Len(trace) :
              trace[i].op \notin {"imshow", "contourf", "plot_surface", "title",
                                  "set_title", "colorbar", "show"}
        /\ trace = IF args.save THEN <<SaveEv(args.path)>> ELSE << >>

C5_Witness ==
    /\ fn = "plot_2d"
    /\ args.mode = "wireframe"
    /\ args.save
    /\ args.grid # None
    /\ outcome = "returned"

\* the n with n * n = len, or 0 if there is none
Side(len) ==
    IF \E n \in 1..len : n * n = len
    THEN CHOOSE n \in 1..len : n * n = len
    ELSE 0

\* C6: in each recognized mode, a plot_2d call that passes a grid of n*n
\* rows and leaves num_points at its default returns normally, having
\* called model.solve on exactly the passed grid and handed the result,
\* reshaped to n by n, to the mode's rendering primitive.
C6_PassedGrid ==
    (/\ fn = "plot_2d"
     /\ args.mode \in Recognized
     /\ args.grid # None
     /\ args.num_points = None
     /\ Side(Len(args.grid[1])) > 0)
    => /\ outcome = "returned"
       /\ Len(Calls("solve")) = 1
       /\ Calls("solve")[1].grid = args.grid[1]
       /\ \E i \in 1..Len(trace) :
             /\ trace[i].op \in {"imshow", "contourf", "plot_surface"}
             /\ Len(trace[i].zs) = Side(Len(args.grid[1]))
             /\ \A r \in 1..Len(trace[i].zs) :
                   Len(trace[i].zs[r]) = Side(Len(args.grid[1]))

\* C7: every model.solve call made by plot_2d (in a recognized mode),
\* plot_sections_2d or plot_sections_3d receives the caller's fetches.
C7_Fetches ==
    (fn \in {"plot_2d", "plot_sections_2d", "plot_sections_3d"}) =>
        \A i \in 1..Len(trace) :
            trace[i].op = "solve" => trace[i].fetches = args.fetches

\* C8: a call of plot_pair_1d, of plot_2d in a recognized mode, of
\* plot_sections_2d or of plot_sections_3d that returns has called
\* savefig(path, dpi=300) exactly once if save is true and never otherwise,
\* after every model.solve and rendering call, and then show exactly once,
\* as its last call.
C8_SaveThenShow ==
    (/\ fn \in {"plot_pair_1d", "plot_2d", "plot_sections_2d", "plot_sections_3d"}
     /\ fn = "plot_2d" => args.mode \in Recognized
     /\ outcome = "returned")
    => /\ Cardinality(Idx("savefig")) = (IF args.save THEN 1 ELSE 0)
       /\ \A s \in Idx("savefig") :
             /\ trace[s] = [op |-> "savefig", path |-> args.path, dpi |-> 300]
             /\ \A i \in 1..Len(trace) :
                   trace[i].op \notin {"savefig", "show"} => i < s
       /\ Idx("show") = {Len(trace)}

\* the timestamp of the section a drawing call belongs to (none in plot_2d)
SectionTime(e) ==
    IF fn = "plot_sections_3d" THEN <<args.timestamps[e.cell]>> ELSE << >>

\* C9: the zs_ handed to contourf or plot_surface by plot_2d and
\* plot_sections_3d is aligned with xs_ and ys_: zs_[i][j] is the model's
\* value at the point (xs_[i][j], ys_[i][j]) (and the section's timestamp),
\* for every model.
C9_Aligned ==
    (fn \in {"plot_2d", "plot_sections_3d"}) =>
        \A k \in 1..Len(trace) :
            trace[k].op \in {"contourf", "plot_surface"} =>
                \A i \in 1..Len(trace[k].zs) :
                    \A j \in 1..Len(trace[k].zs[i]) :
                        trace[k].zs[i][j]
                          = U(args.model, <<trace[k].xs[i][j], trace[k].ys[i][j]>>
                                          \o SectionTime(trace[k]))

\* C10: plot_sections_2d with len(timestamps) <= grid_size[0]*grid_size[1]
\* gives every section, in timestamp order, its own subplot: the i-th
\* solve call gets points whose second column is timestamps[i], and its
\* result is drawn on the cell (i // grid_size[1], i % grid_size[1]); the
\* cells are pairwise distinct and inside the grid.  (Stated for points
\* that are a one-dimensional array or a column, or left at the default.)
C10_Sections ==
    (/\ fn = "plot_sections_2d"
     /\ args.points = None \/ Len(args.points[1].data) = args.points[1].shape[1]
     /\ Len(args.timestamps) <= args.grid_size[1] * args.grid_size[2])
    => LET n == Len(args.timestamps)
           solves == Calls("solve")
           plots == Calls("plot")
       IN  /\ Len(solves) = n
           /\ Len(plots) = n
           /\ \A i \in 1..n :
                 /\ \A r \in 1..Len(solves[i].grid) :
                       solves[i].grid[r][2] = args.timestamps[i]
                 /\ plots[i].y = solve(args.model, solves[i].grid)
                 /\ plots[i].cell = <<(i - 1) \div args.grid_size[2],
                                      (i - 1) % args.grid_size[2]>>
                 /\ plots[i].cell[1] < args.grid_size[1]
                 /\ plots[i].cell[2] < args.grid_size[2]
           /\ \A i, j \in 1..n : i # j => plots[i].cell # plots[j].cell

====
